---- MODULE Spec2Model ----
(***************************************************************************)
(* A model of poker_rs: the hand ranking engine (src/poker/rank.rs) and    *)
(* the range combinatorics calculator (src/holdem/evaluator/range.rs).     *)
(*                                                                         *)
(* Both are pure functions.  Each is an operator computed the way the code *)
(* computes it (u16 arithmetic is kept 16 bits wide), and each has a small *)
(* state machine that builds an input step by step and then calls it:      *)
(*   SpecRank      chooses the cards of a slice, calls rank / rank_five    *)
(*   SpecCompare   builds a slice of Rank values and calls compare_ranks   *)
(*   SpecStraight  builds a 13-bit rank mask and calls rank_straight       *)
(*   SpecRange     types a range text and calls calculate_range_percent    *)
(*   SpecRangeCase the same, the tokens in either letter case              *)
(*   SpecRangeErr  the same, some tokens outside the grammar               *)
(*   SpecCard      types a card code and calls Card::try_from_str          *)
(*   SpecEvaluate  chooses a slice, calls the 2-card classifier evaluate   *)
(*   SpecThreads   threads call calculate_range_percent concurrently       *)
(*   SpecTie       as SpecRank, on a deck of five ranks in two suits       *)
(*   SpecHand      the container Hand and the trait methods invoked on it  *)
(* rank, rank_five and evaluate are default methods of the traits          *)
(* HandRanker and HandEvaluator: functions of the slice that the           *)
(* implementor's cards() returns.  SpecRank, SpecTie and SpecEvaluate      *)
(* apply them to such a slice; SpecHand follows them on the one            *)
(* implementor of the repository, Hand, whose cards() calls itself.        *)
(***************************************************************************)
EXTENDS Integers, Sequences, FiniteSets, TLC

VARIABLES
    cards,          \* the cards of the slice that cards() returns to rank and rank_five (distinct; compute_counts ignores their order)
    ranked,         \* the value rank() returned for the slice cards, or NoValue
    ranked_five,    \* the value rank_five() returned for the slice cards, or NoValue
    ranks,          \* the slice handed to compare_ranks
    winners,        \* the Vec returned by compare_ranks(ranks), or NoValue
    value_set,      \* the u16 rank mask handed to rank_straight
    straight,       \* the Option<u16> returned by rank_straight(value_set), or NoValue
    typed,          \* the tokens typed so far into the range text
    hand_range,     \* the range text (a sequence of characters) handed to calculate_range_percent
    combinations,   \* the local Combinations of the last calculate_range_percent call, or NoValue
    percent,        \* the Result<f32> returned by calculate_range_percent(hand_range), or NoValue
    code,           \* the card code (a sequence of characters) handed to Card::try_from_str
    parsed,         \* the Result<Card> returned by Card::try_from_str(code), or NoValue
    hand,           \* Hand.0: the Vec<Card> of the Hand
    evaluated,      \* the Result<HandType> evaluate() returned for slice, or NoValue
    thread_pc,      \* where each thread is in its calculate_range_percent call
    arg,            \* the range text each thread passed to its call
    trimmed,        \* each thread's local s after TRIM_REGEX and trim
    result,         \* the Result<f32> each thread's call returned, or NoValue
    lazy,           \* the cells of the statics RANGE_REGEX and TRIM_REGEX
    built,          \* how many times the initialiser of each static has run
    frames,         \* the call stack of a method invoked on the Hand: the functions entered, outermost first
    aborted,        \* TRUE once the stack has overflowed and the process is aborted
    slice,          \* the slice that cards() returns to evaluate: a sequence of cards
    constructed,    \* the variant of the Result the last Hand::new_from_strs returned (the Hand of an Ok is in hand), or NoValue
    hand_panicked   \* TRUE once a method of Hand has panicked

vars == <<cards, ranked, ranked_five, ranks, winners, value_set, straight,
          typed, hand_range, combinations, percent,
          code, parsed, hand, evaluated, thread_pc, arg, trimmed, result, lazy, built,
          frames, aborted, slice, constructed, hand_panicked>>

\* a variable that holds the value a call returned is <<>> before the call
\* and <<v>> after it returned v
NoValue == <<>>
Returned(v) == <<v>>

\* Option<T>
None == <<>>
Some(x) == <<x>>

\* the threads that call calculate_range_percent
MaxThreads == 2

Threads == 1..MaxThreads

\* once_cell::sync::Lazy<Regex>: the state of the cell, and the pattern of the
\* Regex it holds once built
Incomplete == [state |-> "incomplete", value |-> None]

----------------------------------------------------------------------------
(* u16 arithmetic.  A u16 bit mask is modelled as the set of the positions  *)
(* of its set bits, a subset of 0..15; U16Value gives the number it is.      *)

USIZE_BIT == 16

BitPositions == 0..(USIZE_BIT - 1)

BitAnd(x, y) == x \cap y

BitOr(x, y) == x \cup y

BitXor(x, y) == (x \ y) \cup (y \ x)

\* u16 << k for k < 16: the bits shifted past bit 15 are dropped (no overflow check)
Shl(x, k) == {b + k : b \in x} \cap BitPositions

count_ones(x) == Cardinality(x)

HighestBit(x) == CHOOSE b \in x : \A c \in x : c <= b

LowestBit(x) == CHOOSE b \in x : \A c \in x : b <= c

leading_zeros(x) == IF x = {} THEN USIZE_BIT ELSE USIZE_BIT - 1 - HighestBit(x)

\* x & (x - 1) for x # 0: x with its lowest set bit cleared
ClearLowest(x) == x \ {LowestBit(x)}

\* the number a mask is
RECURSIVE U16Value(_)
U16Value(x) ==
    IF x = {} THEN 0
    ELSE LET b == CHOOSE b \in x : TRUE IN 2^b + U16Value(x \ {b})

----------------------------------------------------------------------------
(* Cards *)

\* card::Rank as u8: Two = 0 .. Ace = 12;  card::Suit as u8: Club = 0 .. Spade = 3
CardRanks == 0..12
Suits == 0..3
Two == 0
Three == 1
Four == 2
Five == 3
Six == 4
King == 11
Ace == 12
Club == 0
Diamond == 1
Heart == 2
Spade == 3

Card(s, r) == [suit |-> s, rank |-> r]

\* the cards a slice is drawn from: every Diamond, the Two, the Three and the
\* Ace of Hearts and of Spades, and of the Clubs the SideLow lowest ranks and
\* the Ace
SideLow == 2

Deck ==
    {Card(Diamond, r) : r \in CardRanks}
        \cup {Card(u, r) : u \in {Heart, Spade}, r \in {Two, Three, Ace}}
        \cup {Card(Club, r) : r \in (0..(SideLow - 1)) \cup {Ace}}

MAX_CARDS == 7

----------------------------------------------------------------------------
(* rank.rs: the hand ranking engine *)

\* enum Rank { HighCard(u16), .. StraightFlush(u16) }: the variants in declaration order
Categories ==
    <<"HighCard", "OnePair", "TwoPair", "ThreeOfAKind", "Straight",
      "Flush", "FullHouse", "FourOfAKind", "StraightFlush">>

\* a Rank value: the variant and its u16
HandRank(c, v) == [cat |-> c, val |-> v]

\* the Rank value whose u16 is the mask m
Packed(c, m) == HandRank(c, U16Value(m))

\* the position of each variant in the declaration
DiscriminantOf ==
    [c \in {Categories[i] : i \in 1..Len(Categories)} |->
        CHOOSE i \in 1..Len(Categories) : Categories[i] = c]

Discriminant(c) == DiscriminantOf[c]

WHEEL == {0, 1, 2, 3, 12}     \* 0b1_0000_0000_1111

\* rank_straight testing the wheel before the runs of five
rank_straight_wheel_first(vs) ==
    LET left == BitAnd(vs, BitAnd(Shl(vs, 1), BitAnd(Shl(vs, 2),
                    BitAnd(Shl(vs, 3), Shl(vs, 4)))))
        idx  == leading_zeros(left)
    IN  IF BitAnd(vs, WHEEL) = WHEEL THEN Some(0)
        ELSE IF idx < USIZE_BIT THEN Some(USIZE_BIT - 4 - idx)
        ELSE None

rank_straight(vs) ==
    LET left == BitAnd(vs, BitAnd(Shl(vs, 1), BitAnd(Shl(vs, 2),
                    BitAnd(Shl(vs, 3), Shl(vs, 4)))))
        idx  == leading_zeros(left)
    IN  IF idx < USIZE_BIT THEN Some(USIZE_BIT - 4 - idx)
        ELSE IF BitAnd(vs, WHEEL) = WHEEL THEN Some(0)
        ELSE None

\* keep_highest keeping the lowest set bit
keep_lowest(r) == {LowestBit(r)}

\* 1 << (USIZE_BIT - leading_zeros - 1), for a mask that is not 0
keep_highest(r) == Shl({0}, USIZE_BIT - leading_zeros(r) - 1)

\* keep_n clearing the highest set bit instead of the lowest
RECURSIVE keep_n_clear_highest(_, _)
keep_n_clear_highest(r, to_keep) ==
    IF count_ones(r) > to_keep THEN keep_n_clear_highest(r \ {HighestBit(r)}, to_keep) ELSE r

RECURSIVE keep_n(_, _)
keep_n(r, to_keep) ==
    IF count_ones(r) > to_keep THEN keep_n(ClearLowest(r), to_keep) ELSE r

\* find_flush asking for six cards of a suit
find_flush_six(svs) ==
    IF \E s \in Suits : count_ones(svs[s]) >= 6
    THEN Some(CHOOSE s \in Suits : /\ count_ones(svs[s]) >= 6
                                   /\ \A t \in Suits : t < s => count_ones(svs[t]) < 6)
    ELSE None

\* Option<usize>: the first suit whose mask holds five or more ranks
find_flush(svs) ==
    IF \E s \in Suits : count_ones(svs[s]) >= 5
    THEN Some(CHOOSE s \in Suits : /\ count_ones(svs[s]) >= 5
                                   /\ \A t \in Suits : t < s => count_ones(svs[t]) < 5)
    ELSE None

\* (count_to_value, suit_value_sets, value_set) of the cards cs
compute_counts(cs) ==
    LET value_to_count == [v \in CardRanks |-> Cardinality({c \in cs : c.rank = v})]
    IN  [count_to_value  |-> [k \in 0..4 |-> {v \in CardRanks : value_to_count[v] = k}],
         suit_value_sets |-> [s \in Suits |-> {c.rank : c \in {d \in cs : d.suit = s}}],
         value_set       |-> {c.rank : c \in cs}]

rank(cs) ==
    LET cc  == compute_counts(cs)
        ctv == cc.count_to_value
        svs == cc.suit_value_sets
        vs  == cc.value_set
        flush_idx == find_flush(svs)
    IN  IF flush_idx # None THEN
            IF rank_straight(svs[flush_idx[1]]) # None
            THEN HandRank("StraightFlush", rank_straight(svs[flush_idx[1]])[1])
            ELSE Packed("Flush", keep_n(svs[flush_idx[1]], 5))
        ELSE IF ctv[4] # {} THEN
            Packed("FourOfAKind", BitOr(Shl(ctv[4], 13), keep_highest(BitXor(vs, ctv[4]))))
        ELSE IF ctv[3] # {} /\ count_ones(ctv[3]) = 2 THEN
            LET set  == keep_highest(ctv[3])
                pair == BitXor(ctv[3], set)
            IN  Packed("FullHouse", BitOr(Shl(set, 13), pair))
        ELSE IF ctv[3] # {} /\ ctv[2] # {} THEN
            Packed("FullHouse", BitOr(Shl(ctv[3], 13), keep_highest(ctv[2])))
        ELSE IF rank_straight(vs) # None THEN
            HandRank("Straight", rank_straight(vs)[1])
        ELSE IF ctv[3] # {} THEN
            Packed("ThreeOfAKind", BitOr(Shl(ctv[3], 13), keep_n(BitXor(vs, ctv[3]), 2)))
        ELSE IF count_ones(ctv[2]) >= 2 THEN
            LET pairs == keep_n(ctv[2], 2)
            IN  Packed("TwoPair", BitOr(Shl(pairs, 13), keep_highest(BitXor(vs, pairs))))
        ELSE IF ctv[2] = {} THEN
            Packed("HighCard", keep_n(vs, 5))
        ELSE
            Packed("OnePair", BitOr(Shl(ctv[2], 13), keep_n(BitXor(vs, ctv[2]), 3)))

\* unreachable!(): no Rank is returned
Unreachable == [cat |-> "unreachable", val |-> 0]

\* rank_five taking four cards of a suit for a flush
rank_five_flush_of_four(cs) ==
    LET cc  == compute_counts(cs)
        ctv == cc.count_to_value
        svs == cc.suit_value_sets
        vs  == cc.value_set
        unique_card_count == count_ones(vs)
        packed(major_rank) == BitOr(Shl(major_rank, 13), BitXor(vs, major_rank))
    IN  CASE unique_card_count = 5 ->
                LET is_flush == \E s \in Suits : count_ones(svs[s]) >= 4
                    st       == rank_straight(vs)
                IN  IF st = None /\ ~is_flush THEN Packed("HighCard", vs)
                    ELSE IF st # None /\ ~is_flush THEN HandRank("Straight", st[1])
                    ELSE IF st = None /\ is_flush THEN Packed("Flush", vs)
                    ELSE HandRank("StraightFlush", st[1])
          [] unique_card_count = 4 -> Packed("OnePair", packed(ctv[2]))
          [] unique_card_count = 3 ->
                IF ctv[3] # {} THEN Packed("ThreeOfAKind", packed(ctv[3]))
                ELSE Packed("TwoPair", packed(ctv[2]))
          [] unique_card_count = 2 ->
                IF ctv[3] # {} THEN Packed("FullHouse", packed(ctv[3]))
                ELSE Packed("FourOfAKind", packed(ctv[4]))
          [] OTHER -> Unreachable

rank_five(cs) ==
    LET cc  == compute_counts(cs)
        ctv == cc.count_to_value
        svs == cc.suit_value_sets
        vs  == cc.value_set
        unique_card_count == count_ones(vs)
        packed(major_rank) == BitOr(Shl(major_rank, 13), BitXor(vs, major_rank))
    IN  CASE unique_card_count = 5 ->
                LET is_flush == \E s \in Suits : count_ones(svs[s]) = 5
                    st       == rank_straight(vs)
                IN  IF st = None /\ ~is_flush THEN Packed("HighCard", vs)
                    ELSE IF st # None /\ ~is_flush THEN HandRank("Straight", st[1])
                    ELSE IF st = None /\ is_flush THEN Packed("Flush", vs)
                    ELSE HandRank("StraightFlush", st[1])
          [] unique_card_count = 4 -> Packed("OnePair", packed(ctv[2]))
          [] unique_card_count = 3 ->
                IF ctv[3] # {} THEN Packed("ThreeOfAKind", packed(ctv[3]))
                ELSE Packed("TwoPair", packed(ctv[2]))
          [] unique_card_count = 2 ->
                IF ctv[3] # {} THEN Packed("FullHouse", packed(ctv[3]))
                ELSE Packed("FourOfAKind", packed(ctv[4]))
          [] OTHER -> Unreachable

\* an ordering that compares the u16 first and the variant second
RankLessPayloadFirst(a, b) ==
    \/ a.val < b.val
    \/ a.val = b.val /\ Discriminant(a.cat) < Discriminant(b.cat)

\* #[derive(PartialOrd, Ord)] on enum Rank: the variant first, then its u16
RankLess(a, b) ==
    \/ Discriminant(a.cat) < Discriminant(b.cat)
    \/ Discriminant(a.cat) = Discriminant(b.cat) /\ a.val < b.val

\* the loop of compare_ranks from index i (1-based here, i - 1 in the Vec) with
\* the best rank and the winners so far
RECURSIVE CompareLoop(_, _, _, _)
CompareLoop(rs, i, best_rank, w) ==
    IF i > Len(rs) THEN w
    ELSE IF RankLess(best_rank, rs[i]) THEN CompareLoop(rs, i + 1, rs[i], <<i - 1>>)
    ELSE IF rs[i] = best_rank THEN CompareLoop(rs, i + 1, best_rank, Append(w, i - 1))
    ELSE CompareLoop(rs, i + 1, best_rank, w)

\* the loop without winners.clear() on a greater rank
RECURSIVE CompareLoopNoClear(_, _, _, _)
CompareLoopNoClear(rs, i, best_rank, w) ==
    IF i > Len(rs) THEN w
    ELSE IF RankLess(best_rank, rs[i]) THEN CompareLoopNoClear(rs, i + 1, rs[i], Append(w, i - 1))
    ELSE IF rs[i] = best_rank THEN CompareLoopNoClear(rs, i + 1, best_rank, Append(w, i - 1))
    ELSE CompareLoopNoClear(rs, i + 1, best_rank, w)

compare_ranks_no_clear(rs) ==
    IF rs = <<>> THEN <<>> ELSE CompareLoopNoClear(rs, 2, rs[1], <<0>>)

\* the indices (from 0) of the winners
compare_ranks(rs) ==
    IF rs = <<>> THEN <<>> ELSE CompareLoop(rs, 2, rs[1], <<0>>)

----------------------------------------------------------------------------
(* SpecRank: the default methods rank and rank_five of HandRanker applied to *)
(* the slice that cards() returns, the cards of the slice chosen one by one  *)

InitRank ==
    /\ cards = {}
    /\ ranked = NoValue
    /\ ranked_five = NoValue
    /\ ranks = <<>>
    /\ winners = NoValue
    /\ value_set = {}
    /\ straight = NoValue
    /\ typed = <<>>
    /\ hand_range = <<>>
    /\ combinations = NoValue
    /\ percent = NoValue
    /\ code = <<>>
    /\ parsed = NoValue
    /\ hand = <<>>
    /\ evaluated = NoValue
    /\ thread_pc = [t \in Threads |-> "idle"]
    /\ arg = [t \in Threads |-> <<>>]
    /\ trimmed = [t \in Threads |-> <<>>]
    /\ result = [t \in Threads |-> NoValue]
    /\ lazy = [RANGE_REGEX |-> Incomplete, TRIM_REGEX |-> Incomplete]
    /\ built = [RANGE_REGEX |-> 0, TRIM_REGEX |-> 0]
    /\ frames = <<>>
    /\ aborted = FALSE
    /\ slice = <<>>
    /\ constructed = NoValue
    /\ hand_panicked = FALSE

\* the order in which the cards of the deck are dealt
CardIndex(c) == 13 * c.suit + c.rank

\* the next card of the slice that cards() will return.  The slices drawn are
\* those of up to MAX_CARDS distinct cards; compute_counts ignores the order of
\* the cards, so each slice is drawn in one order only.
ChooseCard(c) ==
    /\ Cardinality(cards) < MAX_CARDS
    /\ \A d \in cards : CardIndex(d) < CardIndex(c)
    /\ cards' = cards \cup {c}
    /\ ranked' = NoValue
    /\ ranked_five' = NoValue
    /\ UNCHANGED <<frames, aborted, slice, constructed, hand_panicked>>
    /\ UNCHANGED <<code, parsed, hand, evaluated, thread_pc, arg, trimmed, result, lazy, built>>
    /\ UNCHANGED <<ranks, winners, value_set, straight, typed, hand_range, combinations, percent>>

\* HandRanker::rank, the default method, on an implementor whose cards()
\* returns the slice; it is applied to the slices of 5 to 7 cards
CallRank ==
    /\ Cardinality(cards) \in 5..MAX_CARDS
    /\ ranked = NoValue
    /\ ranked' = Returned(rank(cards))
    /\ UNCHANGED <<frames, aborted, slice, constructed, hand_panicked>>
    /\ UNCHANGED <<code, parsed, hand, evaluated, thread_pc, arg, trimmed, result, lazy, built>>
    /\ UNCHANGED <<cards, ranked_five, ranks, winners, value_set, straight,
                   typed, hand_range, combinations, percent>>

\* HandRanker::rank_five, the default method, on an implementor whose cards()
\* returns the slice; it is applied to the slices of exactly 5 cards
CallRankFive ==
    /\ Cardinality(cards) = 5
    /\ ranked_five = NoValue
    /\ ranked_five' = Returned(rank_five(cards))
    /\ UNCHANGED <<frames, aborted, slice, constructed, hand_panicked>>
    /\ UNCHANGED <<code, parsed, hand, evaluated, thread_pc, arg, trimmed, result, lazy, built>>
    /\ UNCHANGED <<cards, ranked, ranks, winners, value_set, straight,
                   typed, hand_range, combinations, percent>>

NextRank ==
    \/ \E c \in Deck : ChooseCard(c)
    \/ CallRank
    \/ CallRankFive

SpecRank == InitRank /\ [][NextRank]_vars

----------------------------------------------------------------------------
(* What the ranking claims speak of, stated on the cards themselves *)

FiveCardHands(cs) == {h \in SUBSET cs : Cardinality(h) = 5}

\* the greatest Rank value of a non-empty set of Rank values
MaxRank(S) == CHOOSE m \in S : \A x \in S : ~RankLess(m, x)

\* the best rank_five value among the 5-card sub-hands
BestFive(cs) == MaxRank({rank_five(h) : h \in FiveCardHands(cs)})

\* the ranks of cs that occur exactly n times
RanksOccurring(cs, n) == {r \in CardRanks : Cardinality({c \in cs : c.rank = r}) = n}

\* the categories whose payload packs a major group over kickers
GroupedCategories == {"OnePair", "TwoPair", "ThreeOfAKind", "FullHouse", "FourOfAKind"}

\* the major group of a 5-card hand: its quad rank, else its triple rank, else its pair ranks
MajorGroup(h) ==
    IF RanksOccurring(h, 4) # {} THEN RanksOccurring(h, 4)
    ELSE IF RanksOccurring(h, 3) # {} THEN RanksOccurring(h, 3)
    ELSE RanksOccurring(h, 2)

Kickers(h) == {c.rank : c \in h} \ MajorGroup(h)

\* sets of ranks compared from their highest rank down
RanksHigher(A, B) == \E r \in A \ B : \A q \in B \ A : q < r

\* the ranks that are the high card of a run of five consecutive ranks in R
RunTops(R) == {hi \in 4..12 : \A r \in (hi - 4)..hi : r \in R}

HasWheel(R) == {Ace, Two, Three, Four, Five} \subseteq R

\* the value of the best straight in R: top rank - 3 for a run (1 = six-high ..
\* 9 = ace-high), 0 for the wheel alone
BestStraightValue(R) ==
    IF RunTops(R) # {}
    THEN (CHOOSE hi \in RunTops(R) : \A t \in RunTops(R) : t <= hi) - 3
    ELSE 0

SuitRanks(cs, s) == {c.rank : c \in {d \in cs : d.suit = s}}

\* C1: for every 5, 6 or 7 distinct cards, rank returns the maximum, under the
\* Rank ordering, of rank_five over the 5-card subsets of the cards.
C1_RankIsBestFive ==
    ranked # NoValue => ranked[1] = BestFive(cards)

\* C2: of two hands of the same grouped category, the one with the higher major
\* group has the greater payload whatever the kickers, and with equal major groups
\* the higher kickers have the greater payload.  Stated of the 5-card hand that
\* was ranked against every 5-card hand of the deck, for rank and for rank_five.
C2_MajorGroupDominates ==
    ranked_five # NoValue /\ ranked_five[1].cat \in GroupedCategories =>
        \A h \in FiveCardHands(Deck) :
            \A other \in {rank_five(h), rank(h)} :
                other.cat = ranked_five[1].cat =>
                    /\ RanksHigher(MajorGroup(h), MajorGroup(cards))
                            => other.val > ranked_five[1].val
                    /\ MajorGroup(h) = MajorGroup(cards) /\ RanksHigher(Kickers(h), Kickers(cards))
                            => other.val > ranked_five[1].val

\* C6: when rank is given 6 or 7 cards of which one suit holds five or more cards
\* whose ranks contain a run of five or the wheel, it returns StraightFlush with
\* the value of the highest run inside that suit.
C6_BestStraightFlush ==
    ranked # NoValue /\ Cardinality(cards) \in 6..MAX_CARDS =>
        \A s \in Suits :
            LET R == SuitRanks(cards, s)
            IN  Cardinality(R) >= 5 /\ (RunTops(R) # {} \/ HasWheel(R)) =>
                    ranked[1] = HandRank("StraightFlush", BestStraightValue(R))

\* C6 witness: A-2-3-4-5-6-K of diamonds was ranked StraightFlush(1), the six-high
\* run and not the wheel nor the cross-suit alternatives
C6_Witness ==
    /\ cards = {Card(Diamond, r) : r \in {Ace, Two, Three, Four, Five, Six, King}}
    /\ ranked = Returned(HandRank("StraightFlush", 1))

----------------------------------------------------------------------------
(* SpecStraight: a rank mask is built bit by bit and handed to rank_straight *)

InitStraight == InitRank

\* value_set |= 1 << v, as compute_counts builds a mask
SetRankBit(v) ==
    /\ v \notin value_set
    /\ value_set' = value_set \cup {v}
    /\ straight' = NoValue
    /\ UNCHANGED <<frames, aborted, slice, constructed, hand_panicked>>
    /\ UNCHANGED <<code, parsed, hand, evaluated, thread_pc, arg, trimmed, result, lazy, built>>
    /\ UNCHANGED <<cards, ranked, ranked_five, ranks, winners, typed, hand_range,
                   combinations, percent>>

CallRankStraight ==
    /\ straight = NoValue
    /\ straight' = Returned(rank_straight(value_set))
    /\ UNCHANGED <<frames, aborted, slice, constructed, hand_panicked>>
    /\ UNCHANGED <<code, parsed, hand, evaluated, thread_pc, arg, trimmed, result, lazy, built>>
    /\ UNCHANGED <<cards, ranked, ranked_five, ranks, winners, value_set, typed,
                   hand_range, combinations, percent>>

NextStraight ==
    \/ \E v \in CardRanks : SetRankBit(v)
    \/ CallRankStraight

SpecStraight == InitStraight /\ [][NextStraight]_vars

\* C5: rank_straight returns None iff the mask holds neither a run of five nor the
\* wheel; with a run it returns the value of the highest run, from 1 (six-high)
\* to 9 (ace-high); it returns 0 only for the wheel without any run of five.
C5_RankStraight ==
    straight # NoValue =>
        LET res == straight[1]
        IN  /\ res = None <=> (RunTops(value_set) = {} /\ ~HasWheel(value_set))
            /\ RunTops(value_set) # {} =>
                    /\ res = Some(BestStraightValue(value_set))
                    /\ res[1] \in 1..9
            /\ res = Some(0) => (HasWheel(value_set) /\ RunTops(value_set) = {})
            /\ (HasWheel(value_set) /\ RunTops(value_set) = {}) => res = Some(0)

\* C5 witness: A-2-3-4-5-6 holds the wheel and the six-high run, and got 1
C5_Witness ==
    /\ value_set = {Ace, Two, Three, Four, Five, Six}
    /\ straight = Returned(Some(1))

----------------------------------------------------------------------------
(* SpecCompare: a slice of Rank values is built and handed to compare_ranks *)

MaxPlayers == 3

\* the u16 payloads the Rank values of the slice are drawn from
SamplePayloads == {0, 2^USIZE_BIT - 1}

SampleRanks == {HandRank(Categories[i], v) : i \in 1..Len(Categories), v \in SamplePayloads}

InitCompare == InitRank

PushRank(r) ==
    /\ Len(ranks) < MaxPlayers
    /\ ranks' = Append(ranks, r)
    /\ winners' = NoValue
    /\ UNCHANGED <<frames, aborted, slice, constructed, hand_panicked>>
    /\ UNCHANGED <<code, parsed, hand, evaluated, thread_pc, arg, trimmed, result, lazy, built>>
    /\ UNCHANGED <<cards, ranked, ranked_five, value_set, straight, typed, hand_range,
                   combinations, percent>>

CallCompareRanks ==
    /\ winners = NoValue
    /\ winners' = Returned(compare_ranks(ranks))
    /\ UNCHANGED <<frames, aborted, slice, constructed, hand_panicked>>
    /\ UNCHANGED <<code, parsed, hand, evaluated, thread_pc, arg, trimmed, result, lazy, built>>
    /\ UNCHANGED <<cards, ranked, ranked_five, ranks, value_set, straight, typed,
                   hand_range, combinations, percent>>

NextCompare ==
    \/ \E r \in SampleRanks : PushRank(r)
    \/ CallCompareRanks

SpecCompare == InitCompare /\ [][NextCompare]_vars

\* C3: the ordering of Rank values is a transitive total order in which the
\* variant dominates: a value of a later variant is greater whatever the payloads
\* are, and the payload decides only between values of the same variant.
C3_CategoryDominates ==
    \A i, j \in 1..Len(ranks) :
        LET a == ranks[i]
            b == ranks[j]
        IN  /\ (a = b) \/ RankLess(a, b) \/ RankLess(b, a)
            /\ ~(RankLess(a, b) /\ RankLess(b, a))
            /\ ~RankLess(a, a)
            /\ Discriminant(a.cat) < Discriminant(b.cat) => RankLess(a, b)
            /\ a.cat = b.cat => (RankLess(a, b) <=> a.val < b.val)
            /\ \A k \in 1..Len(ranks) :
                    RankLess(a, b) /\ RankLess(b, ranks[k]) => RankLess(a, ranks[k])

\* C3 witness: a TwoPair of payload 0 was compared with a OnePair of the greatest
\* payload, and won
C3_Witness ==
    /\ Len(ranks) = 3
    /\ ranks[1] = HandRank("OnePair", 2^USIZE_BIT - 1)
    /\ ranks[2] = HandRank("TwoPair", 0)
    /\ ranks[3] = HandRank("HighCard", 0)
    /\ winners = Returned(<<1>>)

IsMaxOf(r, rs) == \A k \in 1..Len(rs) : ~RankLess(r, rs[k])

\* C4: compare_ranks returns, ascending and without repetition, exactly the
\* indices whose value is the maximum of the slice; the result is empty iff the
\* slice is empty.
C4_CompareRanks ==
    winners # NoValue =>
        LET w == winners[1]
        IN  /\ \A m, n \in 1..Len(w) : m < n => w[m] < w[n]
            /\ {w[m] : m \in 1..Len(w)} = {i - 1 : i \in {k \in 1..Len(ranks) : IsMaxOf(ranks[k], ranks)}}
            /\ w = <<>> <=> ranks = <<>>

\* C4 witness: the first and the last of three are tied above the second
C4_Witness ==
    /\ ranks = <<HandRank("TwoPair", 0), HandRank("OnePair", 2^USIZE_BIT - 1),
                 HandRank("TwoPair", 0)>>
    /\ winners = Returned(<<0, 2>>)

----------------------------------------------------------------------------
(* card.rs: the Rank primitives the range calculator uses.  A card::Rank is  *)
(* its position in the enum, 0 (Two) .. 12 (Ace); a char is a 1-char string, *)
(* a text a sequence of chars.                                               *)

\* the chars of the ranks Two .. Ace, as Rank::as_char gives them
RankChars == <<"2", "3", "4", "5", "6", "7", "8", "9", "T", "J", "Q", "K", "A">>

\* u8/char::to_ascii_uppercase: the 26 ASCII lower-case letters map to their
\* upper case, every other character to itself
UpperCase ==
    [a |-> "A", b |-> "B", c |-> "C", d |-> "D", e |-> "E", f |-> "F", g |-> "G",
     h |-> "H", i |-> "I", j |-> "J", k |-> "K", l |-> "L", m |-> "M", n |-> "N",
     o |-> "O", p |-> "P", q |-> "Q", r |-> "R", s |-> "S", t |-> "T", u |-> "U",
     v |-> "V", w |-> "W", x |-> "X", y |-> "Y", z |-> "Z"]

to_ascii_uppercase(c) == IF c \in DOMAIN UpperCase THEN UpperCase[c] ELSE c

\* Rank::from_char
Rank_from_char(c) ==
    IF \E i \in 1..Len(RankChars) : RankChars[i] = to_ascii_uppercase(c)
    THEN Some((CHOOSE i \in 1..Len(RankChars) : RankChars[i] = to_ascii_uppercase(c)) - 1)
    ELSE None

\* Rank::as_char, which Display writes
Rank_as_char(r) == RankChars[r + 1]

\* Rank::as_int: Two => 2 .. Ace => 14
as_int(r) == r + 2

\* Rank::from_int
from_int(i) == IF i \in 2..14 THEN Some(i - 2) ELSE None

Abs(n) == IF n < 0 THEN -n ELSE n

gap(a, b) == Abs(as_int(a) - as_int(b))

gap_with_ace(a) == as_int(Ace) - as_int(a)

\* Suit::from_char and Suit::as_char
SuitChars == <<"C", "D", "H", "S">>

Suit_from_char(c) ==
    IF \E i \in 1..Len(SuitChars) : SuitChars[i] = to_ascii_uppercase(c)
    THEN Some((CHOOSE i \in 1..Len(SuitChars) : SuitChars[i] = to_ascii_uppercase(c)) - 1)
    ELSE None

\* Suit::as_char with Heart written as Spade is
Suit_as_char_heart_as_spade(u) == IF u = Heart THEN "S" ELSE SuitChars[u + 1]

Suit_as_char(u) == SuitChars[u + 1]

\* Result<Card>
CardOk(c) == [tag |-> "Ok", card |-> Some(c)]

CardErr(e) == [tag |-> e, card |-> None]

\* Card::try_from_str: the first two chars of the text, whatever follows them
try_from_str(str) ==
    IF Len(str) < 1 THEN CardErr("UnexpectedCardChar")
    ELSE IF Len(str) < 2 THEN CardErr("UnexpectedCardChar")
    ELSE IF Suit_from_char(str[1]) = None THEN CardErr("UnexpectedCardChar")
    ELSE IF Rank_from_char(str[2]) = None THEN CardErr("UnexpectedCardChar")
    ELSE CardOk(Card(Suit_from_char(str[1])[1], Rank_from_char(str[2])[1]))

\* Serialize for Card: format!("{}{}", suit.as_char(), rank.as_char())
serialize(c) == <<Suit_as_char(c.suit), Rank_as_char(c.rank)>>

----------------------------------------------------------------------------
(* holdem/hand_evaluator.rs: the 2-card classifier.  The slice cards() gives is *)
(* a sequence of cards.                                                        *)

\* Result<HandType>
EvalOk(t) == [tag |-> "Ok", hand_type |-> Some(t)]

EvalErr(e) == [tag |-> e, hand_type |-> None]

\* HandEvaluator::evaluate refusing only a slice of fewer than 2 cards
evaluate_at_least_two(cs) ==
    IF Len(cs) < 2 THEN EvalErr("InvalidHandSize")
    ELSE IF cs[1].rank = cs[2].rank THEN EvalOk("Paired")
    ELSE IF cs[1].suit = cs[2].suit THEN EvalOk("Suited")
    ELSE EvalOk("Offsuit")

\* HandEvaluator::evaluate
evaluate(cs) ==
    IF Len(cs) # 2 THEN EvalErr("InvalidHandSize")
    ELSE IF cs[1].rank = cs[2].rank THEN EvalOk("Paired")
    ELSE IF cs[1].suit = cs[2].suit THEN EvalOk("Suited")
    ELSE EvalOk("Offsuit")

----------------------------------------------------------------------------
(* holdem/evaluator/range.rs: the range combinatorics calculator *)

HAND_COMBINATIONS == 1326

SPEC_OFF_SUIT_COMBINATIONS == 12

SPEC_SUITED_COMBINATIONS == 4

SPEC_PAIRED_COMBINATIONS == 6

\* The chars outside ASCII that Unicode simple case folding puts in the case
\* class of an ASCII letter of RANGE_PAT: the Kelvin sign (with K and k) and the
\* long s (with S and s).  A char is a 1-char string; these two are written by
\* their code points.
KelvinSign == "U+212A"

LongS == "U+017F"

\* the chars (?i)[AKQJTt2-9] matches: every rank char in either letter case, and
\* the Kelvin sign
MatchesRankClass(c) == Rank_from_char(c) # None \/ c = KelvinSign

\* the chars (?i)[os] matches
MatchesSuffixClass(c) == c \in {"o", "O", "s", "S", LongS}

\* RANGE_REGEX (?i)^(?:[AKQJTt2-9]{2}[os]?\+?)$ : two rank chars, then o or s or
\* neither, then + or not, in any letter case
IsMatch(tok) ==
    /\ Len(tok) \in 2..4
    /\ MatchesRankClass(tok[1])
    /\ MatchesRankClass(tok[2])
    /\ LET rest == SubSeq(tok, 3, Len(tok))
       IN  \/ rest = <<>>
           \/ Len(rest) = 1 /\ MatchesSuffixClass(rest[1])
           \/ rest = <<"+">>
           \/ Len(rest) = 2 /\ MatchesSuffixClass(rest[1]) /\ rest[2] = "+"

\* the characters with the Unicode property White_Space, which the class \s of
\* the regex crate and str::trim both use; a character without an escape in a
\* string is written by its code point
WhiteSpace ==
    {"\t", "\n", "U+000B", "\f", "\r", " ", "U+0085", "U+00A0", "U+1680",
     "U+2000", "U+2001", "U+2002", "U+2003", "U+2004", "U+2005", "U+2006",
     "U+2007", "U+2008", "U+2009", "U+200A", "U+2028", "U+2029", "U+202F",
     "U+205F", "U+3000"}

\* TRIM_REGEX \s*([,])\s* replaced by "$1": a white-space character goes when
\* only white space lies between it and some comma
BlankAtComma(s, i) ==
    /\ s[i] \in WhiteSpace
    /\ \E j \in 1..Len(s) :
            /\ s[j] = ","
            /\ \A k \in 1..Len(s) :
                    (i < k /\ k < j) \/ (j < k /\ k < i) => s[k] \in WhiteSpace

RECURSIVE TrimCommasFrom(_, _)
TrimCommasFrom(s, i) ==
    IF i > Len(s) THEN <<>>
    ELSE (IF BlankAtComma(s, i) THEN <<>> ELSE <<s[i]>>) \o TrimCommasFrom(s, i + 1)

TrimCommas(s) == TrimCommasFrom(s, 1)

\* str::trim: the white space at both ends goes
Trim(s) ==
    LET inked == {i \in 1..Len(s) : s[i] \notin WhiteSpace}
    IN  IF inked = {} THEN <<>>
        ELSE SubSeq(s, CHOOSE a \in inked : \A i \in inked : a <= i,
                       CHOOSE b \in inked : \A i \in inked : i <= b)

\* str::split(','): the pieces between the commas, empty pieces included
RECURSIVE Split(_)
Split(s) ==
    LET commas == {i \in 1..Len(s) : s[i] = ","}
    IN  IF commas = {} THEN <<s>>
        ELSE LET i == CHOOSE a \in commas : \A b \in commas : a <= b
             IN  <<SubSeq(s, 1, i - 1)>> \o Split(SubSeq(s, i + 1, Len(s)))

\* Combinations::new
NewCombinations == [offsuit |-> {}, suited |-> {}, paired |-> {}]

\* the outcome of a step that may panic: the Combinations it leaves, and whether
\* it panicked (Option::unwrap on None)
Outcome(comb, p) == [comb |-> comb, panicked |-> p]

\* parse_cards of a token that RANGE_REGEX matched; Rank::from_char(..).unwrap()
\* panics on a char that is no rank char
parse_cards(s) ==
    LET c1    == Rank_from_char(s[1])
        c2    == Rank_from_char(s[2])
        third == IF Len(s) >= 3 THEN Some(s[3]) ELSE None
    IN  IF c1 = None \/ c2 = None THEN [panicked |-> TRUE]
        ELSE [panicked |-> FALSE, rank1 |-> c1[1], rank2 |-> c2[1],
              hand_type |-> IF third = Some("o") THEN "Offsuit"
                            ELSE IF third = Some("s") THEN "Suited"
                            ELSE IF c1[1] = c2[1] THEN "Paired"
                            ELSE "UnPaired"]

\* format!("{}{}", rank1, rank2) and format!("{}", rank1)
Label2(rank1, rank2) == <<Rank_as_char(rank1), Rank_as_char(rank2)>>

Label1(rank1) == <<Rank_as_char(rank1)>>

\* generate_single_combinations with UnPaired inserting into offsuit alone
generate_single_offsuit_alone(s, comb) ==
    LET pc == parse_cards(s)
        l2 == Label2(pc.rank1, pc.rank2)
    IN  CASE pc.panicked -> Outcome(comb, TRUE)
          [] pc.hand_type = "Offsuit" -> Outcome([comb EXCEPT !.offsuit = @ \cup {l2}], FALSE)
          [] pc.hand_type = "Suited"  -> Outcome([comb EXCEPT !.suited = @ \cup {l2}], FALSE)
          [] pc.hand_type = "Paired"  ->
                Outcome([comb EXCEPT !.paired = @ \cup {Label1(pc.rank1)}], FALSE)
          [] OTHER -> Outcome([comb EXCEPT !.offsuit = @ \cup {l2}], FALSE)

generate_single_combinations(s, comb) ==
    LET pc == parse_cards(s)
        l2 == Label2(pc.rank1, pc.rank2)
    IN  CASE pc.panicked -> Outcome(comb, TRUE)
          [] pc.hand_type = "Offsuit" -> Outcome([comb EXCEPT !.offsuit = @ \cup {l2}], FALSE)
          [] pc.hand_type = "Suited"  -> Outcome([comb EXCEPT !.suited = @ \cup {l2}], FALSE)
          [] pc.hand_type = "Paired"  ->
                Outcome([comb EXCEPT !.paired = @ \cup {Label1(pc.rank1)}], FALSE)
          [] OTHER ->
                Outcome([comb EXCEPT !.offsuit = @ \cup {l2}, !.suited = @ \cup {l2}], FALSE)

generate_plus_combinations(s, comb) ==
    LET pc == parse_cards(s)
        \* the values v of the loop, in order; from_int(v).unwrap() panics at the
        \* first v that is no rank, after the inserts of the values before it
        vs2   == {as_int(pc.rank2) + i : i \in 0..(gap(pc.rank1, pc.rank2) - 1)}
        good2 == {v \in vs2 : \A w \in vs2 : w <= v => from_int(w) # None}
        l2    == {Label2(pc.rank1, from_int(v)[1]) : v \in good2}
        vs1   == {as_int(pc.rank1) + i : i \in 0..gap_with_ace(pc.rank1)}
        good1 == {v \in vs1 : \A w \in vs1 : w <= v => from_int(w) # None}
        l1    == {Label1(from_int(v)[1]) : v \in good1}
    IN  CASE pc.panicked -> Outcome(comb, TRUE)
          [] pc.hand_type = "Offsuit" ->
                Outcome([comb EXCEPT !.offsuit = @ \cup l2], good2 # vs2)
          [] pc.hand_type = "Suited" ->
                Outcome([comb EXCEPT !.suited = @ \cup l2], good2 # vs2)
          [] pc.hand_type = "Paired" ->
                Outcome([comb EXCEPT !.paired = @ \cup l1], good1 # vs1)
          [] OTHER ->
                Outcome([comb EXCEPT !.offsuit = @ \cup l2, !.suited = @ \cup l2], good2 # vs2)

\* Result<f32>: Ok(total_count as f32 / HAND_COMBINATIONS), kept as the exact
\* fraction num / den; Err(Error::UnexpectedCardChar); or no return at all (a panic)
Ok(total_count) == [tag |-> "Ok", num |-> total_count, den |-> HAND_COMBINATIONS]

Err == [tag |-> "UnexpectedCardChar", num |-> 0, den |-> HAND_COMBINATIONS]

Panic == [tag |-> "panic", num |-> 0, den |-> HAND_COMBINATIONS]

\* the for loop of calculate_range_percent from the i-th piece, and the return
RECURSIVE RangeLoop(_, _, _)
RangeLoop(pieces, i, comb) ==
    IF i > Len(pieces) THEN
        [result |-> Ok(Cardinality(comb.offsuit) * SPEC_OFF_SUIT_COMBINATIONS
                         + Cardinality(comb.suited) * SPEC_SUITED_COMBINATIONS
                         + Cardinality(comb.paired) * SPEC_PAIRED_COMBINATIONS),
         combinations |-> comb]
    ELSE IF ~IsMatch(pieces[i]) THEN [result |-> Err, combinations |-> comb]
    ELSE LET out == IF \E k \in 1..Len(pieces[i]) : pieces[i][k] = "+"
                    THEN generate_plus_combinations(pieces[i], comb)
                    ELSE generate_single_combinations(pieces[i], comb)
         IN  IF out.panicked THEN [result |-> Panic, combinations |-> out.comb]
             ELSE RangeLoop(pieces, i + 1, out.comb)

\* calculate_range_percent(s): what it returns and the Combinations it built
Calculate(s) == RangeLoop(Split(Trim(TrimCommas(s))), 1, NewCombinations)

calculate_range_percent(s) == Calculate(s).result

----------------------------------------------------------------------------
(* The statics RANGE_REGEX and TRIM_REGEX of range.rs: once_cell Lazy cells  *)
(* that the first dereference builds                                         *)

Statics == {"RANGE_REGEX", "TRIM_REGEX"}

\* the pattern the initialiser of a static compiles
PatternOf(static) == IF static = "TRIM_REGEX" THEN "\\s*([,])\\s*" ELSE "RANGE_PAT"

Running == [state |-> "running", value |-> None]

Complete(pattern) == [state |-> "complete", value |-> Some(pattern)]

\* a dereference that runs the initialiser whenever the cell is not complete,
\* also while another thread is building it
may_initialize_while_running(cell) == cell.state # "complete"

\* Lazy::force: the thread that finds the cell incomplete is the one to run the
\* initialiser
may_initialize(cell) == cell.state = "incomplete"

\* Lazy::force of every static by a call that runs alone: a cell not yet built
\* is built, a built cell stays
ForcedCells(cells) ==
    [c \in Statics |-> IF may_initialize(cells[c]) THEN Complete(PatternOf(c)) ELSE cells[c]]

\* the count of the runs of the initialisers after such a call
ForcedBuilt(cells, count) ==
    [c \in Statics |-> IF may_initialize(cells[c]) THEN count[c] + 1 ELSE count[c]]

----------------------------------------------------------------------------
(* SpecRange: a range text is typed token by token and measured *)

MaxTokens == 2

\* the rank chars, suffixes and separators the typed tokens are made of
SampleRankChars == {"A", "K", "J"}

SampleSuffixes == {<<>>, <<"o">>, <<"s">>}

SampleTokens ==
    {<<a, b>> \o suffix \o plus :
        a \in SampleRankChars, b \in SampleRankChars,
        suffix \in SampleSuffixes, plus \in {<<>>, <<"+">>}}

Separator == <<",", " ">>

InitRange == InitRank

\* the caller writes one more token at the end of the text, before the call
TypeToken(tok) ==
    /\ percent = NoValue
    /\ Len(typed) < MaxTokens
    /\ typed' = Append(typed, tok)
    /\ hand_range' = IF typed = <<>> THEN tok ELSE hand_range \o Separator \o tok
    /\ combinations' = NoValue
    /\ percent' = NoValue
    /\ UNCHANGED <<frames, aborted, slice, constructed, hand_panicked>>
    /\ UNCHANGED <<code, parsed, hand, evaluated, thread_pc, arg, trimmed, result, lazy, built>>
    /\ UNCHANGED <<cards, ranked, ranked_five, ranks, winners, value_set, straight>>

\* calculate_range_percent(hand_range), called once on the text typed: the
\* first call of the process builds the statics, a later call finds them built
CallCalculateRangePercent ==
    /\ percent = NoValue
    /\ LET out == Calculate(hand_range)
       IN  /\ percent' = Returned(out.result)
           /\ combinations' = Returned(out.combinations)
    /\ lazy' = ForcedCells(lazy)
    /\ built' = ForcedBuilt(lazy, built)
    /\ UNCHANGED <<frames, aborted, slice, constructed, hand_panicked>>
    /\ UNCHANGED <<code, parsed, hand, evaluated, thread_pc, arg, trimmed, result>>
    /\ UNCHANGED <<cards, ranked, ranked_five, ranks, winners, value_set, straight,
                   typed, hand_range>>

\* after a call, the caller begins another text
NewText ==
    /\ percent # NoValue
    /\ typed' = <<>>
    /\ hand_range' = <<>>
    /\ combinations' = NoValue
    /\ percent' = NoValue
    /\ UNCHANGED <<frames, aborted, slice, constructed, hand_panicked>>
    /\ UNCHANGED <<code, parsed, hand, evaluated, thread_pc, arg, trimmed, result, lazy, built>>
    /\ UNCHANGED <<cards, ranked, ranked_five, ranks, winners, value_set, straight>>

NextRange ==
    \/ \E tok \in SampleTokens : TypeToken(tok)
    \/ CallCalculateRangePercent

SpecRange == InitRange /\ [][NextRange]_vars

----------------------------------------------------------------------------
(* What the range claims speak of, stated on the tokens themselves *)

\* the text of the tokens ts, as TypeToken writes it
RECURSIVE JoinTokens(_)
JoinTokens(ts) ==
    IF ts = <<>> THEN <<>>
    ELSE IF Len(ts) = 1 THEN ts[1]
    ELSE JoinTokens(SubSeq(ts, 1, Len(ts) - 1)) \o Separator \o ts[Len(ts)]

TokenRank(tok, i) == (CHOOSE r \in CardRanks : RankChars[r + 1] = to_ascii_uppercase(tok[i]))

HighRank(tok) == IF TokenRank(tok, 1) >= TokenRank(tok, 2) THEN TokenRank(tok, 1) ELSE TokenRank(tok, 2)

LowRank(tok) == IF TokenRank(tok, 1) >= TokenRank(tok, 2) THEN TokenRank(tok, 2) ELSE TokenRank(tok, 1)

HasPlus(tok) == tok[Len(tok)] = "+"

\* the suffix char of a token, "" when it has none
SuffixOf(tok) == IF Len(tok) >= 3 /\ tok[3] # "+" THEN tok[3] ELSE ""

IsPairToken(tok) == TokenRank(tok, 1) = TokenRank(tok, 2)

\* the starting-hand classes a token stands for in the range notation: a pair
\* token the pairs from its rank (through Ace with +); a token of two ranks the
\* high rank with the low rank (with +, with every rank from the low rank up to
\* but excluding the high rank), offsuit, suited or both
ClassesOf(tok) ==
    IF IsPairToken(tok)
    THEN {[hi |-> r, lo |-> r, class |-> "paired"] :
            r \in IF HasPlus(tok) THEN HighRank(tok)..Ace ELSE {HighRank(tok)}}
    ELSE {[hi |-> HighRank(tok), lo |-> q, class |-> c] :
            q \in (IF HasPlus(tok) THEN LowRank(tok)..(HighRank(tok) - 1) ELSE {LowRank(tok)}),
            c \in (IF SuffixOf(tok) = "o" THEN {"offsuit"}
                   ELSE IF SuffixOf(tok) = "s" THEN {"suited"}
                   ELSE {"offsuit", "suited"})}

ClassesOfAll(ts) == UNION {ClassesOf(ts[i]) : i \in 1..Len(ts)}

\* the ranks a label names
LabelRanks(l) == {TokenRank(l, i) : i \in 1..Len(l)}

\* C7: the result is invariant to token reordering and to duplicate or
\* overlapping tokens: permuting the tokens, repeating a token, or adding a token
\* whose combinations another token already covers leaves the result unchanged.
C7_OrderAndOverlapInvariant ==
    percent # NoValue /\ typed # <<>> =>
        /\ \A f \in Permutations(1..Len(typed)) :
                calculate_range_percent(JoinTokens([i \in 1..Len(typed) |-> typed[f[i]]]))
                    = percent[1]
        /\ \A i \in 1..Len(typed) :
                calculate_range_percent(JoinTokens(Append(typed, typed[i]))) = percent[1]
        /\ \A tok \in SampleTokens :
                ClassesOf(tok) \subseteq ClassesOfAll(typed) =>
                    calculate_range_percent(JoinTokens(Append(typed, tok))) = percent[1]

\* C8: for every accepted range text the result is (12 x distinct offsuit labels
\* + 4 x distinct suited labels + 6 x distinct paired labels) / 1326; "KK+"
\* counts 12 combinations and "JJ+, AK" counts 40.
C8_MeasureFormula ==
    percent # NoValue /\ typed # <<>> =>
        /\ percent[1].tag = "Ok"
        /\ percent[1].den = 1326
        /\ percent[1].num = 12 * Cardinality(combinations[1].offsuit)
                            + 4 * Cardinality(combinations[1].suited)
                            + 6 * Cardinality(combinations[1].paired)
        /\ typed = << <<"K", "K", "+">> >> => percent[1].num = 12
        /\ typed = << <<"J", "J", "+">>, <<"A", "K">> >> => percent[1].num = 40

\* C9: a pair token XX+ inserts every pair from X through Ace; a token of two
\* distinct ranks with + inserts, with the high rank fixed, one label for every
\* second rank from the low rank up to but excluding the high rank, and never a
\* pair.  Stated of the text that is that one token.
C9_PlusExpansion ==
    percent # NoValue /\ Len(typed) = 1 /\ HasPlus(typed[1]) =>
        LET tok  == typed[1]
            comb == combinations[1]
            want == {{HighRank(tok), q} : q \in LowRank(tok)..(HighRank(tok) - 1)}
            got(labels) == {LabelRanks(l) : l \in labels}
        IN  /\ IsPairToken(tok) /\ SuffixOf(tok) = "" =>
                    /\ percent[1].tag = "Ok"
                    /\ comb.paired = {<<RankChars[r + 1]>> : r \in HighRank(tok)..Ace}
                    /\ comb.offsuit = {} /\ comb.suited = {}
            /\ ~IsPairToken(tok) =>
                    /\ percent[1].tag = "Ok"
                    /\ comb.paired = {}
                    /\ got(comb.offsuit) = IF SuffixOf(tok) = "s" THEN {} ELSE want
                    /\ got(comb.suited) = IF SuffixOf(tok) = "o" THEN {} ELSE want
                    /\ Cardinality(comb.offsuit) = Cardinality(got(comb.offsuit))
                    /\ Cardinality(comb.suited) = Cardinality(got(comb.suited))

\* C10: a token of two distinct ranks (without +) adds its label to the offsuit
\* set alone when it ends in o, to the suited set alone when it ends in s, and to
\* both sets when it has no suffix; alone in a text, an unsuffixed token counts 16.
\* Stated of the last token of the text, against the Combinations of the tokens
\* before it.
C10_SuffixChoosesSets ==
    percent # NoValue /\ typed # <<>> /\ percent[1].tag = "Ok" =>
        LET n      == Len(typed)
            tok    == typed[n]
            before == IF n = 1 THEN NewCombinations
                      ELSE Calculate(JoinTokens(SubSeq(typed, 1, n - 1))).combinations
            after  == combinations[1]
            label  == <<tok[1], tok[2]>>
        IN  ~IsPairToken(tok) /\ ~HasPlus(tok) =>
                /\ after.paired = before.paired
                /\ SuffixOf(tok) = "o" =>
                        after.offsuit = before.offsuit \cup {label} /\ after.suited = before.suited
                /\ SuffixOf(tok) = "s" =>
                        after.suited = before.suited \cup {label} /\ after.offsuit = before.offsuit
                /\ SuffixOf(tok) = "" =>
                        /\ after.offsuit = before.offsuit \cup {label}
                        /\ after.suited = before.suited \cup {label}
                        /\ n = 1 => percent[1].num = 16

\* C10 witness: after "AKs", the unsuffixed "AJ" went into both sets
C10_Witness ==
    /\ typed = << <<"A", "K", "s">>, <<"A", "J">> >>
    /\ percent = Returned(Ok(20))
    /\ combinations = Returned([offsuit |-> {<<"A", "J">>},
                                suited  |-> {<<"A", "K">>, <<"A", "J">>},
                                paired  |-> {}])

\* C11: a token whose two ranks are equal is paired whatever follows the ranks:
\* a text of such tokens adds labels to the paired set alone, 6 combinations per
\* pair rank, so AAs and AAo give what AA gives.
C11_EqualRanksArePaired ==
    percent # NoValue /\ typed # <<>> /\ (\A i \in 1..Len(typed) : IsPairToken(typed[i])) =>
        LET want == {<<RankChars[c.hi + 1]>> : c \in ClassesOfAll(typed)}
        IN  /\ percent[1] = Ok(6 * Cardinality(want))
            /\ combinations[1] = [offsuit |-> {}, suited |-> {}, paired |-> want]

----------------------------------------------------------------------------
(* SpecRangeCase: as SpecRange, the tokens typed in either letter case *)

MaxCasedTokens == 1

CasedRankChars == {"A", "K", "k", KelvinSign}

CasedSuffixes == {<<>>, <<"o">>, <<"O">>, <<"s">>, <<"S">>, <<LongS>>}

CasedTokens ==
    {<<a, b>> \o suffix \o plus :
        a \in CasedRankChars, b \in CasedRankChars,
        suffix \in CasedSuffixes, plus \in {<<>>, <<"+">>}}

InitRangeCase == InitRank

NextRangeCase ==
    \/ \E tok \in CasedTokens : Len(typed) < MaxCasedTokens /\ TypeToken(tok)
    \/ CallCalculateRangePercent
    \/ NewText

SpecRangeCase == InitRangeCase /\ [][NextRangeCase]_vars

\* a char in the letter case the notation is usually written in: rank letters
\* upper case, the suffix lower case
UsualRankCase(c) == to_ascii_uppercase(c)

UsualSuffixCase(c) == IF c = "O" THEN "o" ELSE IF c = "S" THEN "s" ELSE c

UsualCase(tok) ==
    [i \in 1..Len(tok) |-> IF i <= 2 THEN UsualRankCase(tok[i]) ELSE UsualSuffixCase(tok[i])]

AsciiText(ts) ==
    \A i \in 1..Len(ts) : \A k \in 1..Len(ts[i]) : ts[i][k] \notin {KelvinSign, LongS}

\* C12: tokens are matched and interpreted case-insensitively: an accepted text
\* written in any letter case of its rank letters and of its o / s suffixes is
\* accepted and has the result of the same text in the usual letter case (AKO is
\* offsuit like AKo, AKS is suited like AKs).
C12_CaseInsensitive ==
    percent # NoValue /\ typed # <<>> /\ AsciiText(typed) =>
        LET usual == calculate_range_percent(
                        JoinTokens([i \in 1..Len(typed) |-> UsualCase(typed[i])]))
        IN  /\ usual.tag # "UnexpectedCardChar" => percent[1].tag # "UnexpectedCardChar"
            /\ percent[1] = usual

----------------------------------------------------------------------------
(* SpecRangeErr: as SpecRange, some of the typed tokens outside the grammar *)

\* tokens of the grammar: single, with +, the ranks in either order, and one
\* with white space around it, which the trimming removes
GoodTokens ==
    { <<"A", "K">>, <<"J", "J", "+">>, <<"A", "J", "o", "+">>, <<"K", "A", "s">>,
      <<"J", "A", "+">>, <<"K", "A", "o", "+">>, <<"\t", "A", "K", "\n">> }

\* tokens outside the grammar: those of test_invalid_combinations that have no
\* comma, the empty token, and tokens with white space inside
BadTokens ==
    { <<"A", "K", "x">>, <<"A", "A", "o", "s">>, <<"1", "1">>, <<"Z", "Z">>, <<"A">>,
      <<"A", "K", "+", "Q", "J">>, <<"A", "K", "o", "+", "+">>, <<"-", "A", "k", "s">>,
      <<>>, <<"A", " ", "K">>, <<"A", "\t", "K">> }

InitRangeErr == InitRank

NextRangeErr ==
    \/ \E tok \in GoodTokens \cup BadTokens : TypeToken(tok)
    \/ CallCalculateRangePercent
    \/ NewText

SpecRangeErr == InitRangeErr /\ [][NextRangeErr]_vars

\* C13: if any token of the text fails the grammar, the parse error
\* UnexpectedCardChar is returned and no numeric value, whatever tokens of the
\* grammar precede or follow the failing one.
C13_BadTokenIsParseError ==
    percent # NoValue /\ (\E i \in 1..Len(typed) : typed[i] \in BadTokens) =>
        percent[1] = Err

\* C14: for every text all of whose tokens match the grammar, the two ranks of a
\* token in either order, with or without +, a numeric result is returned: no
\* such text makes the call panic.
C14_GrammarValidReturns ==
    percent # NoValue /\ typed # <<>> /\ (\A i \in 1..Len(typed) : IsMatch(typed[i])) =>
        percent[1].tag = "Ok"

----------------------------------------------------------------------------
(* SpecCard: a card code is typed char by char and parsed *)

MaxCodeLen == 2

\* the chars a code is typed from: the suit chars and the rank chars, the
\* letters in both cases, and two chars that are neither
CodeChars ==
    {SuitChars[i] : i \in 1..Len(SuitChars)} \cup {"c", "d", "h", "s"}
        \cup {RankChars[i] : i \in 1..Len(RankChars)} \cup {"t", "j", "q", "k", "a"}
        \cup {"x", "1"}

InitCard == InitRank

TypeChar(ch) ==
    /\ Len(code) < MaxCodeLen
    /\ code' = Append(code, ch)
    /\ parsed' = NoValue
    /\ UNCHANGED <<cards, ranked, ranked_five, ranks, winners, value_set, straight,
                   typed, hand_range, combinations, percent>>
    /\ UNCHANGED <<frames, aborted, slice, constructed, hand_panicked>>
    /\ UNCHANGED <<hand, evaluated, thread_pc, arg, trimmed, result, lazy, built>>

CallTryFromStr ==
    /\ parsed = NoValue
    /\ parsed' = Returned(try_from_str(code))
    /\ UNCHANGED <<cards, ranked, ranked_five, ranks, winners, value_set, straight,
                   typed, hand_range, combinations, percent>>
    /\ UNCHANGED <<frames, aborted, slice, constructed, hand_panicked>>
    /\ UNCHANGED <<code, hand, evaluated, thread_pc, arg, trimmed, result, lazy, built>>

NextCard ==
    \/ \E ch \in CodeChars : TypeChar(ch)
    \/ CallTryFromStr

SpecCard == InitCard /\ [][NextCard]_vars

IsSuitChar(c) == c \in {"S", "H", "D", "C", "s", "h", "d", "c"}

IsRankChar(c) == c \in {"2", "3", "4", "5", "6", "7", "8", "9", "T", "J", "Q", "K", "A",
                        "t", "j", "q", "k", "a"}

\* C15: try_from_str reports three distinguishable errors: one for a text of
\* fewer than two chars, another for a suit char that is not one of S,H,D,C, and
\* another for a rank char that is not one of 2-9,T,J,Q,K,A.
C15_DistinctCardErrors ==
    \A short \in {<<>>, <<"S">>}, badsuit \in {<<"x", "A">>}, badrank \in {<<"S", "x">>} :
        parsed # NoValue /\ code \in {short, badsuit, badrank} =>
            LET e == [c \in {short, badsuit, badrank} |-> try_from_str(c).tag]
            IN  /\ parsed[1].tag # "Ok"
                /\ parsed[1].tag = e[code]
                /\ e[short] # e[badsuit] /\ e[badsuit] # e[badrank] /\ e[short] # e[badrank]

\* C16: card code round trip: a two-char code the parser accepts, in any letter
\* case, written back as <suit-char><rank-char> and parsed again, gives a card
\* of the same suit and rank; and from_char(as_char(x)) = x for each of the 4
\* suits and the 13 ranks.
C16_CardRoundTrip ==
    /\ parsed # NoValue /\ Len(code) = 2 =>
            (parsed[1].tag = "Ok" <=> IsSuitChar(code[1]) /\ IsRankChar(code[2]))
    /\ parsed # NoValue /\ Len(code) = 2 /\ parsed[1].tag = "Ok" =>
            LET c == parsed[1].card[1]
            IN  /\ try_from_str(serialize(c)) = CardOk(c)
                /\ SuitChars[c.suit + 1] = to_ascii_uppercase(code[1])
                /\ RankChars[c.rank + 1] = to_ascii_uppercase(code[2])
    /\ parsed # NoValue =>
            /\ \A u \in Suits : Suit_from_char(Suit_as_char(u)) = Some(u)
            /\ \A r \in CardRanks : Rank_from_char(Rank_as_char(r)) = Some(r)

\* C16 witness: the lower-case code "hk" parsed to the King of Hearts
C16_Witness ==
    /\ code = <<"h", "k">>
    /\ parsed = Returned(CardOk(Card(Heart, King)))

----------------------------------------------------------------------------
(* SpecEvaluate: the default method evaluate of HandEvaluator applied to the *)
(* slice that cards() returns, the cards of the slice chosen one by one       *)

MaxEvalCards == 3

\* the cards the classified slices are drawn from: two ranks in every suit
EvalDeck == {Card(u, r) : u \in Suits, r \in {Two, Ace}}

InitEvaluate == InitRank

\* the next card of the slice that cards() will return; a slice may hold a
\* card twice
ChooseSliceCard(c) ==
    /\ Len(slice) < MaxEvalCards
    /\ slice' = Append(slice, c)
    /\ evaluated' = NoValue
    /\ UNCHANGED <<cards, ranked, ranked_five, ranks, winners, value_set, straight,
                   typed, hand_range, combinations, percent>>
    /\ UNCHANGED <<frames, aborted, constructed, hand_panicked>>
    /\ UNCHANGED <<code, parsed, hand, thread_pc, arg, trimmed, result, lazy, built>>

\* HandEvaluator::evaluate, the default method, on an implementor whose
\* cards() returns the slice
CallEvaluate ==
    /\ evaluated = NoValue
    /\ evaluated' = Returned(evaluate(slice))
    /\ UNCHANGED <<cards, ranked, ranked_five, ranks, winners, value_set, straight,
                   typed, hand_range, combinations, percent>>
    /\ UNCHANGED <<frames, aborted, slice, constructed, hand_panicked>>
    /\ UNCHANGED <<code, parsed, hand, thread_pc, arg, trimmed, result, lazy, built>>

NextEvaluate ==
    \/ \E c \in EvalDeck : ChooseSliceCard(c)
    \/ CallEvaluate

SpecEvaluate == InitEvaluate /\ [][NextEvaluate]_vars

\* C17: evaluate returns InvalidHandSize if and only if the hand does not hold
\* exactly 2 cards; for 2 cards it returns Paired when the ranks are equal,
\* otherwise Suited when the suits are equal, otherwise Offsuit; it never
\* returns UnPaired.
C17_TwoCardClassifier ==
    evaluated # NoValue =>
        /\ evaluated[1].tag = "InvalidHandSize" <=> Len(slice) # 2
        /\ evaluated[1].tag \in {"Ok", "InvalidHandSize"}
        /\ evaluated[1].hand_type # Some("UnPaired")
        /\ Len(slice) = 2 =>
                evaluated[1].hand_type =
                    Some(IF slice[1].rank = slice[2].rank THEN "Paired"
                         ELSE IF slice[1].suit = slice[2].suit THEN "Suited"
                         ELSE "Offsuit")

\* C17 witness: a suited slice was given a third card, and the slice of 3 cards
\* was refused
C17_Witness ==
    /\ slice = <<Card(Spade, Ace), Card(Spade, Two), Card(Heart, Two)>>
    /\ evaluated = Returned(EvalErr("InvalidHandSize"))

----------------------------------------------------------------------------
(* SpecThreads: threads call calculate_range_percent concurrently.  A call   *)
(* dereferences TRIM_REGEX, then RANGE_REGEX; a dereference of a Lazy whose  *)
(* cell is incomplete runs the initialiser, one whose cell is being built by *)
(* another thread waits, one whose cell is complete reads it.                *)

\* the range texts the threads pass
ThreadTexts ==
    { <<"A", "K">>,
      <<"J", "J", "+", " ", ",", " ", "A", "K">>,
      <<"A", "K", "x">>,
      <<"J", "A", "+">> }

\* the static a thread dereferences at a position of the call
StaticAt(p) == IF p \in {"trim", "init_trim"} THEN "TRIM_REGEX" ELSE "RANGE_REGEX"

InitThreads == InitRank

\* a thread enters calculate_range_percent(s)
Enter(t, s) ==
    /\ thread_pc[t] = "idle"
    /\ thread_pc' = [thread_pc EXCEPT ![t] = "trim"]
    /\ arg' = [arg EXCEPT ![t] = s]
    /\ UNCHANGED <<cards, ranked, ranked_five, ranks, winners, value_set, straight,
                   typed, hand_range, combinations, percent>>
    /\ UNCHANGED <<frames, aborted, slice, constructed, hand_panicked>>
    /\ UNCHANGED <<code, parsed, hand, evaluated, trimmed, result, lazy, built>>

\* the dereference finds the cell incomplete: the thread starts the initialiser
StartInit(t) ==
    /\ thread_pc[t] \in {"trim", "match"}
    /\ may_initialize(lazy[StaticAt(thread_pc[t])])
    /\ lazy' = [lazy EXCEPT ![StaticAt(thread_pc[t])] = Running]
    /\ thread_pc' = [thread_pc EXCEPT ![t] = IF @ = "trim" THEN "init_trim" ELSE "init_range"]
    /\ UNCHANGED <<cards, ranked, ranked_five, ranks, winners, value_set, straight,
                   typed, hand_range, combinations, percent>>
    /\ UNCHANGED <<frames, aborted, slice, constructed, hand_panicked>>
    /\ UNCHANGED <<code, parsed, hand, evaluated, arg, trimmed, result, built>>

\* Regex::new(..).unwrap() has returned: the cell is complete and the thread
\* goes on to read it
FinishInit(t) ==
    /\ thread_pc[t] \in {"init_trim", "init_range"}
    /\ lazy' = [lazy EXCEPT ![StaticAt(thread_pc[t])] = Complete(PatternOf(StaticAt(thread_pc[t])))]
    /\ built' = [built EXCEPT ![StaticAt(thread_pc[t])] = @ + 1]
    /\ thread_pc' = [thread_pc EXCEPT ![t] = IF @ = "init_trim" THEN "trim" ELSE "match"]
    /\ UNCHANGED <<cards, ranked, ranked_five, ranks, winners, value_set, straight,
                   typed, hand_range, combinations, percent>>
    /\ UNCHANGED <<frames, aborted, slice, constructed, hand_panicked>>
    /\ UNCHANGED <<code, parsed, hand, evaluated, arg, trimmed, result>>

\* TRIM_REGEX.replace_all(s, "$1").trim() with the complete cell
TrimText(t) ==
    /\ thread_pc[t] = "trim"
    /\ lazy.TRIM_REGEX.state = "complete"
    /\ trimmed' = [trimmed EXCEPT ![t] = Trim(TrimCommas(arg[t]))]
    /\ thread_pc' = [thread_pc EXCEPT ![t] = "match"]
    /\ UNCHANGED <<cards, ranked, ranked_five, ranks, winners, value_set, straight,
                   typed, hand_range, combinations, percent>>
    /\ UNCHANGED <<frames, aborted, slice, constructed, hand_panicked>>
    /\ UNCHANGED <<code, parsed, hand, evaluated, arg, result, lazy, built>>

\* the split, the loop over the pieces with the complete RANGE_REGEX, and the
\* return (or the panic)
MatchAndReturn(t) ==
    /\ thread_pc[t] = "match"
    /\ lazy.RANGE_REGEX.state = "complete"
    /\ result' = [result EXCEPT ![t] =
                    Returned(RangeLoop(Split(trimmed[t]), 1, NewCombinations).result)]
    /\ thread_pc' = [thread_pc EXCEPT ![t] = "done"]
    /\ UNCHANGED <<cards, ranked, ranked_five, ranks, winners, value_set, straight,
                   typed, hand_range, combinations, percent>>
    /\ UNCHANGED <<frames, aborted, slice, constructed, hand_panicked>>
    /\ UNCHANGED <<code, parsed, hand, evaluated, arg, trimmed, lazy, built>>

NextThreads ==
    \E t \in Threads :
        \/ \E s \in ThreadTexts : Enter(t, s)
        \/ StartInit(t)
        \/ FinishInit(t)
        \/ TrimText(t)
        \/ MatchAndReturn(t)

SpecThreads == InitThreads /\ [][NextThreads]_vars

\* each static is built at most once, is complete exactly when built, is built
\* before any thread reads it, and each finished call has the result of the
\* call run alone
BuiltOnceAndResultsAsAlone ==
    /\ \A c \in Statics :
            /\ built[c] <= 1
            /\ built[c] = 1 <=> lazy[c] = Complete(PatternOf(c))
            /\ Cardinality({t \in Threads : thread_pc[t] \in {"init_trim", "init_range"}
                                             /\ StaticAt(thread_pc[t]) = c}) <= 1
    /\ \A t \in Threads :
            /\ thread_pc[t] \in {"match", "init_range", "done"} => built.TRIM_REGEX = 1
            /\ thread_pc[t] = "done" =>
                    /\ built.RANGE_REGEX = 1
                    /\ result[t] = Returned(calculate_range_percent(arg[t]))

\* a complete cell is never written again
CompleteCellStays ==
    \A c \in Statics : lazy[c].state = "complete" => lazy'[c] = lazy[c]

\* C18: when several threads call calculate_range_percent concurrently, the
\* first calls included, each lazily initialised matcher is built exactly once
\* and never modified afterwards, and every call returns the result it returns
\* when run alone.
C18_LazyBuiltOnce == []BuiltOnceAndResultsAsAlone /\ [][CompleteCellStays]_vars

\* C18 witness: the calls of two threads, one on a valid text and one on a text
\* outside the grammar, have both returned, and each static was built once
C18_Witness ==
    /\ thread_pc[1] = "done" /\ thread_pc[2] = "done"
    /\ arg[1] = <<"J", "J", "+", " ", ",", " ", "A", "K">> /\ arg[2] = <<"A", "K", "x">>
    /\ result[1] = Returned(Ok(40)) /\ result[2] = Returned(Err)
    /\ built = [RANGE_REGEX |-> 1, TRIM_REGEX |-> 1]

----------------------------------------------------------------------------
(* The categories of poker, stated on the cards themselves *)

IsFlushHand(h) == \E u \in Suits : \A c \in h : c.suit = u

IsStraightHand(h) ==
    LET R == {c.rank : c \in h}
    IN  Cardinality(R) = 5 /\ (RunTops(R) # {} \/ HasWheel(R))

\* the category of a hand of 5 cards
CategoryOfFive(h) ==
    IF IsStraightHand(h) /\ IsFlushHand(h) THEN "StraightFlush"
    ELSE IF RanksOccurring(h, 4) # {} THEN "FourOfAKind"
    ELSE IF RanksOccurring(h, 3) # {} /\ RanksOccurring(h, 2) # {} THEN "FullHouse"
    ELSE IF IsFlushHand(h) THEN "Flush"
    ELSE IF IsStraightHand(h) THEN "Straight"
    ELSE IF RanksOccurring(h, 3) # {} THEN "ThreeOfAKind"
    ELSE IF Cardinality(RanksOccurring(h, 2)) = 2 THEN "TwoPair"
    ELSE IF Cardinality(RanksOccurring(h, 2)) = 1 THEN "OnePair"
    ELSE "HighCard"

\* C19: for every 5 distinct cards rank_five returns the correct category: with
\* 5 distinct ranks HighCard, Straight, Flush or StraightFlush by the straight
\* and flush tests; with 4, OnePair; with 3, ThreeOfAKind if a rank occurs three
\* times, else TwoPair; with 2, FullHouse if a rank occurs three times, else
\* FourOfAKind; the unreachable branch is never reached.
C19_RankFiveCategory ==
    ranked_five # NoValue =>
        LET distinct == Cardinality({c.rank : c \in cards})
            cat      == ranked_five[1].cat
        IN  /\ ranked_five[1] # Unreachable
            /\ cat = CategoryOfFive(cards)
            /\ distinct = 5 => cat \in {"HighCard", "Straight", "Flush", "StraightFlush"}
            /\ distinct = 4 => cat = "OnePair"
            /\ distinct = 3 =>
                    cat = IF RanksOccurring(cards, 3) # {} THEN "ThreeOfAKind" ELSE "TwoPair"
            /\ distinct = 2 =>
                    cat = IF RanksOccurring(cards, 3) # {} THEN "FullHouse" ELSE "FourOfAKind"

\* C19 witness: Twos full of Threes
C19_Witness ==
    /\ cards = {Card(Club, Two), Card(Diamond, Two), Card(Heart, Two),
                Card(Club, Three), Card(Diamond, Three)}
    /\ ranked_five = Returned(HandRank("FullHouse", 8194))

\* the greatest rank of a set of ranks
HighestOf(R) == CHOOSE r \in R : \A q \in R : q <= r

\* what rank_five gives the full house of three cards of rank t and two of rank p
FullHouseOf(t, p) ==
    rank_five({Card(Club, t), Card(Diamond, t), Card(Heart, t), Card(Club, p), Card(Diamond, p)})

\* C20: rank on 6 or 7 cards with no flush and no four of a kind: when two ranks
\* each occur three times the result is the FullHouse of the higher as the
\* triple and the lower as the pair; when one rank occurs three times and one or
\* more others occur twice, the FullHouse of that triple and the highest of the
\* paired ranks as the pair.
C20_FullHouseOfSevenCards ==
    /\ ranked # NoValue
    /\ Cardinality(cards) \in {6, 7}
    /\ \A u \in Suits : Cardinality(SuitRanks(cards, u)) < 5
    /\ RanksOccurring(cards, 4) = {}
    =>  LET threes == RanksOccurring(cards, 3)
            twos   == RanksOccurring(cards, 2)
        IN  /\ Cardinality(threes) = 2 =>
                    /\ ranked[1] = FullHouseOf(HighestOf(threes), LowestBit(threes))
                    /\ ranked[1].cat = "FullHouse"
                    /\ ranked[1].val % 2^13 = 2^LowestBit(threes)
            /\ Cardinality(threes) = 1 /\ twos # {} =>
                    /\ ranked[1] = FullHouseOf(HighestOf(threes), HighestOf(twos))
                    /\ ranked[1].cat = "FullHouse"
                    /\ ranked[1].val % 2^13 = 2^HighestOf(twos)

\* C20 witness: three Twos, three Threes and an Ace: Threes full of Twos
C20_Witness ==
    /\ cards = {Card(Club, Two), Card(Diamond, Two), Card(Heart, Two),
                Card(Club, Three), Card(Diamond, Three), Card(Heart, Three),
                Card(Diamond, Ace)}
    /\ ranked = Returned(HandRank("FullHouse", 16385))

\* the n highest ranks of a set of ranks
TopN(R, n) == {r \in R : Cardinality({q \in R : q > r}) < n}

\* the low 13 bits of a payload, as a set of ranks
MinorPart(v) == {r \in CardRanks : (v \div 2^r) % 2 = 1}

\* what rank_five gives two pairs of the ranks p and q with the kicker k
TwoPairOf(p, q, k) ==
    rank_five({Card(Club, p), Card(Diamond, p), Card(Club, q), Card(Diamond, q), Card(Club, k)})

\* C21: whenever rank on 5 to 7 cards keeps k ranks out of more candidates it
\* keeps the k highest: the Flush payload is the 5 highest ranks of the flush
\* suit and the HighCard payload the 5 highest ranks present; the low 13 bits
\* hold the highest rank outside the group for FourOfAKind and TwoPair, the 2
\* highest for ThreeOfAKind and the 3 highest for OnePair, taken from all other
\* cards, an unused lower pair or set included; TwoPair uses the two highest
\* paired ranks.
C21_KeepsTheHighest ==
    ranked # NoValue =>
        LET all    == {c.rank : c \in cards}
            cat    == ranked[1].cat
            val    == ranked[1].val
            fours  == RanksOccurring(cards, 4)
            threes == RanksOccurring(cards, 3)
            twos   == RanksOccurring(cards, 2)
        IN  /\ cat = "Flush" =>
                    \E u \in Suits :
                        /\ Cardinality(SuitRanks(cards, u)) >= 5
                        /\ val = U16Value(TopN(SuitRanks(cards, u), 5))
            /\ cat = "HighCard" => val = U16Value(TopN(all, 5))
            /\ cat = "FourOfAKind" => MinorPart(val) = TopN(all \ fours, 1)
            /\ cat = "ThreeOfAKind" => MinorPart(val) = TopN(all \ threes, 2)
            /\ cat = "OnePair" => MinorPart(val) = TopN(all \ twos, 3)
            /\ cat = "TwoPair" =>
                    /\ MinorPart(val) = TopN(all \ TopN(twos, 2), 1)
                    /\ ranked[1] = TwoPairOf(HighestOf(twos), LowestBit(TopN(twos, 2)),
                                             HighestOf(all \ TopN(twos, 2)))

\* C21 witness: of three pairs the Aces and the Threes are kept, and the Two of
\* the unused pair is the kicker
C21_Witness ==
    /\ cards = {Card(Club, Two), Card(Diamond, Two), Card(Club, Three), Card(Diamond, Three),
                Card(Club, Ace), Card(Diamond, Ace)}
    /\ ranked = Returned(HandRank("TwoPair", 16385))

\* C22: on every hand of exactly 5 cards rank and rank_five return the same
\* value, category and payload.
C22_RankAgreesWithRankFive ==
    Cardinality(cards) = 5 /\ ranked # NoValue /\ ranked_five # NoValue =>
        /\ ranked[1].cat = ranked_five[1].cat
        /\ ranked[1].val = ranked_five[1].val

\* C22 witness: both calls on a flush of five Diamonds
C22_Witness ==
    /\ cards = {Card(Diamond, Two), Card(Diamond, Three), Card(Diamond, Four),
                Card(Diamond, Six), Card(Diamond, King)}
    /\ ranked = Returned(HandRank("Flush", 2071))
    /\ ranked_five = Returned(HandRank("Flush", 2071))

----------------------------------------------------------------------------
(* SpecTie: as SpecRank, the hands dealt from five ranks in two suits, so that *)
(* two hands can hold pairs of different high ranks over the same kickers      *)

TieDeck == {Card(u, r) : u \in {Club, Diamond}, r \in {Two, Three, Four, King, Ace}}

InitTie == InitRank

NextTie ==
    \/ \E c \in TieDeck : ChooseCard(c)
    \/ CallRank
    \/ CallRankFive

SpecTie == InitTie /\ [][NextTie]_vars

\* how many cards of each rank a hand holds
RankCounts(h) == [r \in CardRanks |-> Cardinality({c \in h : c.rank = r})]

\* two hands of 5 cards are of equal poker strength: the same category, and the
\* same ranks in the same numbers (the same major group and the same kickers)
SameStrength(g, h) ==
    /\ CategoryOfFive(g) = CategoryOfFive(h)
    /\ RankCounts(g) = RankCounts(h)

\* C23: rank_five and rank give two hands equal values only if the hands have
\* the same category and the same ranks in their best five cards; hence
\* compare_ranks reports a tie only between hands of equal strength.  Stated of
\* the hand of 5 cards just ranked against every other hand of 5 cards.
C23_EqualValuesEqualStrength ==
    Cardinality(cards) = 5 =>
        \A h \in FiveCardHands(TieDeck) :
            /\ ranked_five # NoValue /\ rank_five(h) = ranked_five[1] => SameStrength(h, cards)
            /\ ranked # NoValue /\ rank(h) = ranked[1] => SameStrength(h, cards)
            /\ ranked_five # NoValue /\ ~SameStrength(h, cards) =>
                    compare_ranks(<<ranked_five[1], rank_five(h)>>) # <<0, 1>>

\* the number of two-card starting hands in a set of classes: 12 for an offsuit
\* class, 4 for a suited class, 6 for a pair
HandsIn(classes) ==
    12 * Cardinality({c \in classes : c.class = "offsuit"})
        + 4 * Cardinality({c \in classes : c.class = "suited"})
        + 6 * Cardinality({c \in classes : c.class = "paired"})

\* C24: for every accepted text the number of combinations counted never
\* exceeds 1326, so the fraction lies between 0 and 1; in particular the same
\* two ranks written in either order (AKo and KAo) and equal-rank tokens with a
\* suffix are not counted as additional combinations: the count is at most the
\* number of starting hands the tokens name.
C24_NeverOverCounts ==
    percent # NoValue /\ typed # <<>> /\ percent[1].tag = "Ok" =>
        /\ percent[1].num >= 0
        /\ percent[1].num <= HAND_COMBINATIONS
        /\ percent[1].num <= HandsIn(ClassesOfAll(typed))

----------------------------------------------------------------------------
(* poker/hand.rs: the container Hand, a tuple struct around Vec<Card>.  The  *)
(* Vec holds the cards in the order given and may hold a card twice.         *)

\* Result<Hand>: the Hand of an Ok as its Vec
HandOk(cs) == [tag |-> "Ok", hand |-> Some(cs)]

HandErr(e) == [tag |-> e, hand |-> None]

\* Hand::new_with_cards
new_with_cards(cs) == cs

\* Hand::new_from_strs: the loop over the strs from the i-th, the cards parsed
\* so far in cs; the first str that Card::try_from_str refuses ends the loop
\* with its error
RECURSIVE new_from_strs_from(_, _, _)
new_from_strs_from(strs, i, cs) ==
    IF i > Len(strs) THEN HandOk(cs)
    ELSE LET card == try_from_str(strs[i])
         IN  IF card.tag # "Ok" THEN HandErr(card.tag)
             ELSE new_from_strs_from(strs, i + 1, Append(cs, card.card[1]))

new_from_strs(strs) == new_from_strs_from(strs, 1, <<>>)

\* Hand::len
len(cs) == Len(cs)

\* Hand::is_empty
is_empty(cs) == Len(cs) = 0

\* Vec::push
push(cs, c) == Append(cs, c)

\* Vec::remove(index), index counted from 0; it panics unless index < len
remove_in_bounds(cs, index) == index < Len(cs)

remove(cs, index) == SubSeq(cs, 1, index) \o SubSeq(cs, index + 2, Len(cs))

\* Vec::truncate(len): the first len cards stay; a Vec of at most len cards is
\* left as it is
truncate(cs, n) == IF n < Len(cs) THEN SubSeq(cs, 1, n) ELSE cs

\* Vec::extend
extend(cs, iter) == cs \o iter

----------------------------------------------------------------------------
(* SpecHand: a Hand is constructed and changed by its methods, and a method  *)
(* of HandRanker or HandEvaluator is invoked on it.  The call stack of the   *)
(* invocation is followed from the method down to the accessor cards() that  *)
(* Hand implements for the trait.                                            *)

\* the longest Vec the model holds
MaxHandLen == 3

\* the frames the model stack holds before it overflows
MaxFrames == 6

\* the cards the hands are made of
HandCards == {Card(Spade, Ace), Card(Spade, Two), Card(Heart, Ace)}

\* the card codes handed to new_from_strs: three that parse, one that does not
HandCodes == { <<"S", "A">>, <<"s", "2">>, <<"h", "a">>, <<"s", "x">> }

\* the sequences of at most n members of S
SeqsUpTo(S, n) == UNION {[1..k -> S] : k \in 0..n}

\* the methods a caller invokes on a Hand: every method of the pub traits
\* HandRanker (cards, rank, rank_five, compute_counts) and HandEvaluator
\* (cards, evaluate)
HandMethods == {"rank", "rank_five", "compute_counts", "evaluate", "cards"}

\* what self.cards() in the body of Hand's cards() resolves to: struct Hand has
\* no method cards of its own and no Deref, so the trait method being defined
self_cards_callee == "cards"

\* the first call each function makes: rank and rank_five call
\* compute_counts, compute_counts and evaluate call cards, and cards calls
\* what self.cards() resolves to
Callee(f) ==
    CASE f \in {"rank", "rank_five"} -> "compute_counts"
      [] f \in {"compute_counts", "evaluate"} -> "cards"
      [] f = "cards" -> self_cards_callee

InitHand == InitRank

\* the process is alive and no method runs on the hand
Idle == frames = <<>> /\ ~aborted /\ ~hand_panicked

\* Hand::new_with_cards(cards): the hand is the Vec given
NewWithCards(cs) ==
    /\ Idle
    /\ hand' = new_with_cards(cs)
    /\ UNCHANGED <<frames, aborted, constructed, hand_panicked>>
    /\ UNCHANGED <<cards, ranked, ranked_five, ranks, winners, value_set, straight,
                   typed, hand_range, combinations, percent>>
    /\ UNCHANGED <<code, parsed, evaluated, thread_pc, arg, trimmed, result, lazy, built,
                   slice>>

\* Hand::new_from_strs(strs): the hand is the Vec of the cards parsed, or no
\* hand is made
NewFromStrs(strs) ==
    /\ Idle
    /\ constructed' = Returned(new_from_strs(strs).tag)
    /\ hand' = IF new_from_strs(strs).tag = "Ok" THEN new_from_strs(strs).hand[1] ELSE hand
    /\ UNCHANGED <<frames, aborted, hand_panicked>>
    /\ UNCHANGED <<cards, ranked, ranked_five, ranks, winners, value_set, straight,
                   typed, hand_range, combinations, percent>>
    /\ UNCHANGED <<code, parsed, evaluated, thread_pc, arg, trimmed, result, lazy, built,
                   slice>>

\* Hand::push: the Vec grows by the card, whatever it holds
Push(c) ==
    /\ Idle
    /\ len(hand) < MaxHandLen
    /\ hand' = push(hand, c)
    /\ UNCHANGED <<frames, aborted, constructed, hand_panicked>>
    /\ UNCHANGED <<cards, ranked, ranked_five, ranks, winners, value_set, straight,
                   typed, hand_range, combinations, percent>>
    /\ UNCHANGED <<code, parsed, evaluated, thread_pc, arg, trimmed, result, lazy, built,
                   slice>>

\* Hand::remove
Remove(index) ==
    /\ Idle
    /\ IF remove_in_bounds(hand, index)
       THEN hand' = remove(hand, index) /\ UNCHANGED hand_panicked
       ELSE hand_panicked' = TRUE /\ UNCHANGED hand
    /\ UNCHANGED <<frames, aborted, constructed>>
    /\ UNCHANGED <<cards, ranked, ranked_five, ranks, winners, value_set, straight,
                   typed, hand_range, combinations, percent>>
    /\ UNCHANGED <<code, parsed, evaluated, thread_pc, arg, trimmed, result, lazy, built,
                   slice>>

\* Hand::truncate
Truncate(n) ==
    /\ Idle
    /\ hand' = truncate(hand, n)
    /\ UNCHANGED <<frames, aborted, constructed, hand_panicked>>
    /\ UNCHANGED <<cards, ranked, ranked_five, ranks, winners, value_set, straight,
                   typed, hand_range, combinations, percent>>
    /\ UNCHANGED <<code, parsed, evaluated, thread_pc, arg, trimmed, result, lazy, built,
                   slice>>

\* Extend::extend
Extend(iter) ==
    /\ Idle
    /\ len(hand) + Len(iter) <= MaxHandLen
    /\ hand' = extend(hand, iter)
    /\ UNCHANGED <<frames, aborted, constructed, hand_panicked>>
    /\ UNCHANGED <<cards, ranked, ranked_five, ranks, winners, value_set, straight,
                   typed, hand_range, combinations, percent>>
    /\ UNCHANGED <<code, parsed, evaluated, thread_pc, arg, trimmed, result, lazy, built,
                   slice>>

\* a caller invokes the method m on the Hand
Invoke(m) ==
    /\ Idle
    /\ frames' = <<m>>
    /\ UNCHANGED <<hand, aborted, constructed, hand_panicked>>
    /\ UNCHANGED <<cards, ranked, ranked_five, ranks, winners, value_set, straight,
                   typed, hand_range, combinations, percent>>
    /\ UNCHANGED <<code, parsed, evaluated, thread_pc, arg, trimmed, result, lazy, built,
                   slice>>

\* the innermost function makes its first call.  (Where the build turns the
\* call of cards() in cards() into a jump, the stack stays as it is and the
\* call spins: a step that leaves every variable unchanged.)
CallInward ==
    /\ frames # <<>>
    /\ Len(frames) < MaxFrames
    /\ frames' = Append(frames, Callee(frames[Len(frames)]))
    /\ UNCHANGED <<hand, aborted, constructed, hand_panicked>>
    /\ UNCHANGED <<cards, ranked, ranked_five, ranks, winners, value_set, straight,
                   typed, hand_range, combinations, percent>>
    /\ UNCHANGED <<code, parsed, evaluated, thread_pc, arg, trimmed, result, lazy, built,
                   slice>>

\* no room for another frame: the thread overflows its stack and the process
\* is aborted
StackOverflow ==
    /\ Len(frames) = MaxFrames
    /\ ~aborted
    /\ aborted' = TRUE
    /\ UNCHANGED <<hand, frames, constructed, hand_panicked>>
    /\ UNCHANGED <<cards, ranked, ranked_five, ranks, winners, value_set, straight,
                   typed, hand_range, combinations, percent>>
    /\ UNCHANGED <<code, parsed, evaluated, thread_pc, arg, trimmed, result, lazy, built,
                   slice>>

NextHand ==
    \/ \E cs \in SeqsUpTo(HandCards, MaxHandLen) : NewWithCards(cs)
    \/ \E strs \in SeqsUpTo(HandCodes, MaxHandLen) : NewFromStrs(strs)
    \/ \E c \in HandCards : Push(c)
    \/ \E index \in 0..MaxHandLen : Remove(index)
    \/ \E n \in 0..MaxHandLen : Truncate(n)
    \/ \E iter \in SeqsUpTo(HandCards, MaxHandLen) : Extend(iter)
    \/ \E m \in HandMethods : Invoke(m)
    \/ CallInward
    \/ StackOverflow

SpecHand == InitHand /\ [][NextHand]_vars

\* C25: the accessor cards() that Hand implements for HandRanker and for
\* HandEvaluator returns the stored cards without calling itself, so rank,
\* rank_five and evaluate invoked on a Hand terminate with a value: no call
\* stack holds cards() inside cards(), and no invocation ends in an abort.
C25_CardsAccessorReturns ==
    /\ \A i \in 1..Len(frames) : \A j \in 1..Len(frames) :
            i < j /\ frames[i] = "cards" => frames[j] # "cards"
    /\ ~aborted

====
